---- MODULE Spec2Model ----
(***************************************************************************)
(* Model of atom::api::Protocol (atom/browser/api/atom_api_protocol.cc):   *)
(* the scheme registry that lives on the UI ("user") thread, the job       *)
(* factory it mirrors on the IO thread, the two task queues between them,  *)
(* and the adapter jobs that ask the JS handler what job to create.        *)
(***************************************************************************)
EXTENDS Integers, Sequences, FiniteSets, TLC

\* ---------------------------------------------------------------- bounds
\* How many operations (commands and requests together) the environment
\* performs.
MaxOps == 4

\* ------------------------------------------------------------- constants
Schemes == {"app", "atom", "http"}
\* Schemes the job factory serves with a built-in handler at start-up.
BuiltinSchemes == {"http"}

\* A null ProtocolHandler* / an empty base::Callback.
NULL == 0
CmdIds == 1..MaxOps
\* The CustomProtocolHandler created for command i has identity i; the
\* built-in handler object has an identity outside the command ids.
BuiltinId == MaxOps + 1
IsCustom(h) == h \in CmdIds

AlreadyHandled == "The Scheme is already registered"
NotHandled == "Scheme does not exist."
CannotInterceptCustom == "Cannot intercept custom protocols."
NotRegistered == "The Scheme has not been registered"
Success == "null"
Pending == "pending"

VARIABLES
  protocol_handlers_,  \* Protocol::protocol_handlers_: scheme -> JS handler
  factory,             \* job_factory_: scheme -> ProtocolHandler* (NULL: none)
  protocol_handler_,   \* CustomProtocolHandler::protocol_handler_ per handler
  destroyed,           \* handler objects that have been deleted
  io_queue,            \* tasks posted to BrowserThread::IO
  ui_queue,            \* tasks posted to BrowserThread::UI
  cmds,                \* the commands issued by the user, in issue order
  result,              \* what each command's callback was last called with
  calls,               \* how often each command's callback was called
  doneAt,              \* Len(cmds) when the callback was called (0: not yet)
  applied,             \* commands whose ...InIO step has run, in that order
  original,            \* handler found by InterceptProtocolInIO, per command
  asserted,            \* commands whose ...InIO step ran into NOTREACHED()
  jobs,                \* the adapter jobs created so far (map_at_creation,
                       \* handler, value, type, posted: what happened to them)
  crashed              \* the process has aborted

vars == <<protocol_handlers_, factory, protocol_handler_, destroyed, io_queue,
          ui_queue, cmds, result, calls, doneAt, applied, original, asserted,
          jobs, crashed>>

registryVars == <<protocol_handlers_>>
factoryVars == <<factory, protocol_handler_, destroyed, original, asserted>>
cmdVars == <<cmds, result, calls, doneAt>>

Task(type, id, arg) == [type |-> type, id |-> id, arg |-> arg]

\* ----------------------------------------------------- std::map helpers
ContainsKey(map, key) == key \in DOMAIN map
Erase(map, key) == [k \in (DOMAIN map) \ {key} |-> map[k]]
Store(map, key, value) ==
  [k \in (DOMAIN map) \cup {key} |-> IF k = key THEN value ELSE map[k]]

\* The callback the handler map holds for scheme (NULL: none).
HandlerAt(scheme) ==
  IF ContainsKey(protocol_handlers_, scheme)
    THEN protocol_handlers_[scheme] ELSE NULL

\* ------------------------------------------------- the IO-thread factory
HasProtocolHandler(scheme) == factory[scheme] # NULL
IsHandledProtocol(scheme) == HasProtocolHandler(scheme)
GetFactoryHandler(scheme) == factory[scheme]

\* Everything deleted with handler h: h itself and, through the scoped_ptr
\* member, the handler it wraps.
RECURSIVE Owned(_, _)
Owned(h, wraps) ==
  IF h = NULL THEN {}
  ELSE IF IsCustom(h) THEN {h} \cup Owned(wraps[h], wraps)
  ELSE {h}

Init ==
  /\ protocol_handlers_ = [k \in {} |-> NULL]
  /\ factory = [s \in Schemes |-> IF s \in BuiltinSchemes THEN BuiltinId ELSE NULL]
  /\ protocol_handler_ = [h \in CmdIds |-> NULL]
  /\ destroyed = {}
  /\ io_queue = << >>
  /\ ui_queue = << >>
  /\ cmds = << >>
  /\ result = << >>
  /\ calls = << >>
  /\ doneAt = << >>
  /\ applied = << >>
  /\ original = [h \in CmdIds |-> NULL]
  /\ asserted = {}
  /\ jobs = << >>
  /\ crashed = FALSE


\* ---------------------------------------------------------- bookkeeping
NewCmd(op, scheme) == [op |-> op, scheme |-> scheme]
NextId == Len(cmds) + 1

\* The JS completion callback of command id is run with value.
RunCallback(id, value) ==
  /\ result' = [result EXCEPT ![id] = value]
  /\ calls' = [calls EXCEPT ![id] = @ + 1]
  /\ doneAt' = [doneAt EXCEPT ![id] = Len(cmds)]

\* A command is issued whose callback is run synchronously with value.
IssueAndCallback(op, scheme, value) ==
  /\ cmds' = Append(cmds, NewCmd(op, scheme))
  /\ result' = Append(result, value)
  /\ calls' = Append(calls, 1)
  /\ doneAt' = Append(doneAt, NextId)

\* A command is issued whose callback has not been run yet.
Issue(op, scheme) ==
  /\ cmds' = Append(cmds, NewCmd(op, scheme))
  /\ result' = Append(result, Pending)
  /\ calls' = Append(calls, 0)
  /\ doneAt' = Append(doneAt, 0)

CanIssue == ~crashed /\ Len(cmds) + Len(jobs) < MaxOps

\* BrowserThread::PostTask(BrowserThread::IO, ...)
PostToIO(task) == io_queue' = Append(io_queue, task)

\* ------------------------------------------ commands, on the UI thread
\* Protocol::IsHandledProtocol posts the factory query; the reply carries
\* its answer to OnRegisterProtocol.
RegisterProtocol(scheme) ==
  /\ CanIssue
  /\ Issue("register", scheme)
  /\ PostToIO(Task("IsHandledProtocol", NextId, FALSE))
  /\ UNCHANGED <<registryVars, factoryVars, ui_queue, applied, jobs, crashed>>

\* Mutant: the check for a scheme that is not in the map is missing.
UnregisterProtocol_NoCheck(scheme) ==
  /\ CanIssue
  /\ Issue("unregister", scheme)
  /\ protocol_handlers_' = Erase(protocol_handlers_, scheme)
  /\ PostToIO(Task("UnregisterProtocolInIO", NextId, FALSE))
  /\ UNCHANGED <<factoryVars, ui_queue, applied, jobs, crashed>>

UnregisterProtocol(scheme) ==
  /\ CanIssue
  /\ IF ~ContainsKey(protocol_handlers_, scheme)
       THEN /\ IssueAndCallback("unregister", scheme, NotRegistered)
            /\ UNCHANGED <<protocol_handlers_, io_queue>>
       ELSE /\ Issue("unregister", scheme)
            /\ protocol_handlers_' = Erase(protocol_handlers_, scheme)
            /\ PostToIO(Task("UnregisterProtocolInIO", NextId, FALSE))
  /\ UNCHANGED <<factoryVars, ui_queue, applied, jobs, crashed>>

InterceptProtocol(scheme) ==
  /\ CanIssue
  /\ Issue("intercept", scheme)
  /\ PostToIO(Task("HasProtocolHandler", NextId, FALSE))
  /\ UNCHANGED <<registryVars, factoryVars, ui_queue, applied, jobs, crashed>>

UninterceptProtocol(scheme) ==
  /\ CanIssue
  /\ IF ~ContainsKey(protocol_handlers_, scheme)
       THEN /\ IssueAndCallback("unintercept", scheme, NotRegistered)
            /\ UNCHANGED <<protocol_handlers_, io_queue>>
       ELSE /\ Issue("unintercept", scheme)
            /\ protocol_handlers_' = Erase(protocol_handlers_, scheme)
            /\ PostToIO(Task("UninterceptProtocolInIO", NextId, FALSE))
  /\ UNCHANGED <<factoryVars, ui_queue, applied, jobs, crashed>>

\* ---------------------------------------- replies, on the UI thread
UIHead(type) == ~crashed /\ ui_queue # << >> /\ Head(ui_queue).type = type

\* Mutant: the callback is run with success as soon as the map is updated,
\* not as the reply to RegisterProtocolInIO.
OnRegisterProtocol_EarlyCallback(id, is_handled) ==
  LET scheme == cmds[id].scheme IN
  IF is_handled \/ ContainsKey(protocol_handlers_, scheme)
    THEN /\ RunCallback(id, AlreadyHandled)
         /\ UNCHANGED <<protocol_handlers_, io_queue>>
    ELSE /\ protocol_handlers_' = Store(protocol_handlers_, scheme, id)
         /\ PostToIO(Task("RegisterProtocolInIO", id, FALSE))
         /\ RunCallback(id, Success)

\* Mutant: a scheme is taken for registered when the map holds any scheme.
OnRegisterProtocol_AnyScheme(id, is_handled) ==
  LET scheme == cmds[id].scheme IN
  IF is_handled \/ DOMAIN protocol_handlers_ # {}
    THEN /\ RunCallback(id, AlreadyHandled)
         /\ UNCHANGED <<protocol_handlers_, io_queue>>
    ELSE /\ protocol_handlers_' = Store(protocol_handlers_, scheme, id)
         /\ PostToIO(Task("RegisterProtocolInIO", id, FALSE))
         /\ UNCHANGED <<result, calls, doneAt>>

OnRegisterProtocol(id, is_handled) ==
  LET scheme == cmds[id].scheme IN
  IF is_handled \/ ContainsKey(protocol_handlers_, scheme)
    THEN /\ RunCallback(id, AlreadyHandled)
         /\ UNCHANGED <<protocol_handlers_, io_queue>>
    ELSE /\ protocol_handlers_' = Store(protocol_handlers_, scheme, id)
         /\ PostToIO(Task("RegisterProtocolInIO", id, FALSE))
         /\ UNCHANGED <<result, calls, doneAt>>

\* Mutant: the check for a scheme that is already in the map is missing.
OnInterceptProtocol_NoCustomCheck(id, is_handled) ==
  LET scheme == cmds[id].scheme IN
  IF ~is_handled
    THEN /\ RunCallback(id, NotHandled)
         /\ UNCHANGED <<protocol_handlers_, io_queue>>
    ELSE /\ protocol_handlers_' = Store(protocol_handlers_, scheme, id)
         /\ PostToIO(Task("InterceptProtocolInIO", id, FALSE))
         /\ UNCHANGED <<result, calls, doneAt>>

\* Mutant: the factory's answer is ignored.
OnInterceptProtocol_NoHandledCheck(id, is_handled) ==
  LET scheme == cmds[id].scheme IN
  IF ContainsKey(protocol_handlers_, scheme)
    THEN /\ RunCallback(id, CannotInterceptCustom)
         /\ UNCHANGED <<protocol_handlers_, io_queue>>
    ELSE /\ protocol_handlers_' = Store(protocol_handlers_, scheme, id)
         /\ PostToIO(Task("InterceptProtocolInIO", id, FALSE))
         /\ UNCHANGED <<result, calls, doneAt>>

OnInterceptProtocol(id, is_handled) ==
  LET scheme == cmds[id].scheme IN
  IF ~is_handled
    THEN /\ RunCallback(id, NotHandled)
         /\ UNCHANGED <<protocol_handlers_, io_queue>>
    ELSE IF ContainsKey(protocol_handlers_, scheme)
      THEN /\ RunCallback(id, CannotInterceptCustom)
           /\ UNCHANGED <<protocol_handlers_, io_queue>>
      ELSE /\ protocol_handlers_' = Store(protocol_handlers_, scheme, id)
           /\ PostToIO(Task("InterceptProtocolInIO", id, FALSE))
           /\ UNCHANGED <<result, calls, doneAt>>

RunOnRegisterProtocol ==
  /\ UIHead("OnRegisterProtocol")
  /\ OnRegisterProtocol(Head(ui_queue).id, Head(ui_queue).arg)
  /\ ui_queue' = Tail(ui_queue)
  /\ UNCHANGED <<factoryVars, cmds, applied, jobs, crashed>>

RunOnInterceptProtocol ==
  /\ UIHead("OnInterceptProtocol")
  /\ OnInterceptProtocol(Head(ui_queue).id, Head(ui_queue).arg)
  /\ ui_queue' = Tail(ui_queue)
  /\ UNCHANGED <<factoryVars, cmds, applied, jobs, crashed>>

\* The reply half of PostTaskAndReply: base::Bind(callback, v8::Null()).
RunReply ==
  /\ UIHead("Reply")
  /\ RunCallback(Head(ui_queue).id, Success)
  /\ ui_queue' = Tail(ui_queue)
  /\ UNCHANGED <<registryVars, factoryVars, io_queue, cmds, applied, jobs, crashed>>


\* --------------------------------------------- tasks, on the IO thread
IOHead(type) == ~crashed /\ io_queue # << >> /\ Head(io_queue).type = type

\* BrowserThread::PostTaskAndReply[WithResult]: once the task has run on the
\* IO thread its reply is posted back to the UI thread.
PostReply(reply) ==
  /\ io_queue' = Tail(io_queue)
  /\ ui_queue' = Append(ui_queue, reply)

\* NOTREACHED() is DCHECK(false): fatal where DCHECKs are compiled in, and
\* nothing at all otherwise. The build is one or the other: once a
\* NOTREACHED() has been survived, none is fatal.
NOTREACHED == IF asserted = {} THEN BOOLEAN ELSE {FALSE}

\* The process aborts in the middle of an IO task: nothing else changes.
Abort(id, hitAssert) ==
  /\ crashed' = TRUE
  /\ asserted' = IF hitAssert THEN asserted \cup {id} ELSE asserted
  /\ UNCHANGED <<factory, protocol_handler_, destroyed, original, applied,
                 io_queue, ui_queue>>

RunIsHandledProtocol ==
  /\ IOHead("IsHandledProtocol")
  /\ LET id == Head(io_queue).id IN
       PostReply(Task("OnRegisterProtocol", id,
                      IsHandledProtocol(cmds[id].scheme)))
  /\ UNCHANGED <<registryVars, factoryVars, cmdVars, applied, jobs, crashed>>

RunHasProtocolHandler ==
  /\ IOHead("HasProtocolHandler")
  /\ LET id == Head(io_queue).id IN
       PostReply(Task("OnInterceptProtocol", id,
                      HasProtocolHandler(cmds[id].scheme)))
  /\ UNCHANGED <<registryVars, factoryVars, cmdVars, applied, jobs, crashed>>

\* AtomURLRequestJobFactory::SetProtocolHandler(scheme, handler): a null
\* handler clears the entry and deletes the handler that was there.
SetProtocolHandler(scheme, handler) ==
  /\ factory' = [factory EXCEPT ![scheme] = handler]
  /\ destroyed' = IF handler = NULL
                    THEN destroyed \cup Owned(factory[scheme], protocol_handler_)
                    ELSE destroyed

\* AtomURLRequestJobFactory::ReplaceProtocol(scheme, handler) installs
\* handler; the caller gets the previous one, factory[scheme].
ReplaceProtocol(scheme, handler) ==
  factory' = [factory EXCEPT ![scheme] = handler]

Done(id) ==
  /\ applied' = Append(applied, id)
  /\ PostReply(Task("Reply", id, FALSE))
  /\ crashed' = crashed

\* new CustomProtocolHandler(this): the handler's identity is the command's.
RegisterProtocolInIO(id) ==
  /\ SetProtocolHandler(cmds[id].scheme, id)
  /\ UNCHANGED <<protocol_handler_, original, asserted>>
  /\ Done(id)

UnregisterProtocolInIO(id) ==
  /\ SetProtocolHandler(cmds[id].scheme, NULL)
  /\ UNCHANGED <<protocol_handler_, original, asserted>>
  /\ Done(id)

\* new CustomProtocolHandler(this, original_handler)
InterceptProtocolInIO(id) ==
  LET scheme == cmds[id].scheme
      original_handler == GetFactoryHandler(scheme)
  IN \E fatal \in NOTREACHED :
     IF original_handler = NULL /\ fatal
       THEN Abort(id, TRUE)
       ELSE /\ asserted' = IF original_handler = NULL
                             THEN asserted \cup {id} ELSE asserted
            /\ ReplaceProtocol(scheme, id)
            /\ protocol_handler_' = [protocol_handler_ EXCEPT ![id] = original_handler]
            /\ original' = [original EXCEPT ![id] = original_handler]
            /\ UNCHANGED destroyed
            /\ Done(id)

\* Mutant: the wrapped handler is not released before the wrapping handler
\* is deleted, so it is deleted with it.
UninterceptProtocolInIO_NoRelease(id) ==
  LET scheme == cmds[id].scheme
      handler == GetFactoryHandler(scheme)
  IN IF ~IsCustom(handler)
       THEN Abort(id, FALSE)
       ELSE /\ ReplaceProtocol(scheme, protocol_handler_[handler])
            /\ destroyed' = destroyed \cup Owned(handler, protocol_handler_)
            /\ UNCHANGED <<protocol_handler_, original, asserted>>
            /\ Done(id)

UninterceptProtocolInIO(id) ==
  LET scheme == cmds[id].scheme
      handler == GetFactoryHandler(scheme)
  IN IF ~IsCustom(handler)
       \* handler->original_handler() on a null pointer, or on a handler
       \* that is no CustomProtocolHandler: the process dies.
       THEN Abort(id, FALSE)
       ELSE \E fatal \in NOTREACHED :
         IF protocol_handler_[handler] = NULL /\ fatal
         THEN Abort(id, TRUE)
         ELSE LET original_handler == protocol_handler_[handler] IN
              /\ asserted' = IF original_handler = NULL
                               THEN asserted \cup {id} ELSE asserted
              \* handler->ReleaseDefaultProtocolHandler()
              /\ protocol_handler_' = [protocol_handler_ EXCEPT ![handler] = NULL]
              /\ ReplaceProtocol(scheme, original_handler)
              \* delete the handler ReplaceProtocol returned
              /\ destroyed' = destroyed \cup {handler}
              /\ UNCHANGED original
              /\ Done(id)

RunRegisterProtocolInIO ==
  /\ IOHead("RegisterProtocolInIO")
  /\ RegisterProtocolInIO(Head(io_queue).id)
  /\ UNCHANGED <<registryVars, cmdVars, jobs>>

RunUnregisterProtocolInIO ==
  /\ IOHead("UnregisterProtocolInIO")
  /\ UnregisterProtocolInIO(Head(io_queue).id)
  /\ UNCHANGED <<registryVars, cmdVars, jobs>>

RunInterceptProtocolInIO ==
  /\ IOHead("InterceptProtocolInIO")
  /\ InterceptProtocolInIO(Head(io_queue).id)
  /\ UNCHANGED <<registryVars, cmdVars, jobs>>

RunUninterceptProtocolInIO ==
  /\ IOHead("UninterceptProtocolInIO")
  /\ UninterceptProtocolInIO(Head(io_queue).id)
  /\ UNCHANGED <<registryVars, cmdVars, jobs>>


\* ------------------------------------------------------- adapter jobs
\* What the JS handler may return: a string, an object by constructor name
\* (RequestErrorJob with or without an "error" field), some other object,
\* or a value that is neither (undefined, null, a number).
RecognizedObjects == {"RequestStringJob", "RequestBufferJob", "RequestFileJob",
                      "RequestErrorJob", "RequestErrorJob(error)",
                      "RequestHttpJob"}
DecisionValues == {"string"} \cup RecognizedObjects \cup {"OtherObject", "undefined"}
IsString(v) == v = "string"
IsObject(v) == v \in RecognizedObjects \cup {"OtherObject"}
Unrecognized(v) == ~IsString(v) /\ v \notin RecognizedObjects

NoJob == "none"

\* Mutant: the check for a default protocol handler is missing.
JobType_NoDefaultCheck(value, default_protocol_handler) ==
  IF IsString(value) \/ value = "RequestStringJob" THEN "StringJob"
  ELSE IF value = "RequestBufferJob" THEN "BufferJob"
  ELSE IF value = "RequestFileJob" THEN "FileJob"
  ELSE IF value = "RequestErrorJob" THEN "ErrorJob:ERR_NOT_IMPLEMENTED"
  ELSE IF value = "RequestErrorJob(error)" THEN "ErrorJob:error"
  ELSE IF value = "RequestHttpJob" THEN "HttpJob"
  ELSE "JobFromProtocolHandler"

\* The Create...JobAndStart task GetJobTypeInUI posts for the handler's
\* result, given the job's default_protocol_handler().
JobType(value, default_protocol_handler) ==
  IF IsString(value) THEN "StringJob"
  ELSE IF IsObject(value) /\ value = "RequestStringJob" THEN "StringJob"
  ELSE IF IsObject(value) /\ value = "RequestBufferJob" THEN "BufferJob"
  ELSE IF IsObject(value) /\ value = "RequestFileJob" THEN "FileJob"
  ELSE IF IsObject(value) /\ value = "RequestErrorJob"
    THEN "ErrorJob:ERR_NOT_IMPLEMENTED"
  ELSE IF IsObject(value) /\ value = "RequestErrorJob(error)"
    THEN "ErrorJob:error"
  ELSE IF IsObject(value) /\ value = "RequestHttpJob" THEN "HttpJob"
  ELSE IF default_protocol_handler # NULL THEN "JobFromProtocolHandler"
  ELSE "ErrorJob:ERR_NOT_IMPLEMENTED"

\* Mutant: the adapter job is not given the handler's wrapped prior handler.
MaybeCreateJob_NoDefault(scheme) ==
  /\ ~crashed
  /\ Len(cmds) + Len(jobs) < MaxOps
  /\ IsCustom(factory[scheme])
  /\ jobs' = Append(jobs, [scheme |-> scheme,
                           creator |-> factory[scheme],
                           map_at_creation |-> HandlerAt(scheme),
                           default_protocol_handler |-> NULL,
                           alive |-> TRUE,
                           dangling |-> FALSE,
                           handler |-> NULL,
                           value |-> NoJob,
                           type |-> NoJob,
                           posted |-> 0,
                           real_job |-> NoJob])
  /\ ui_queue' = Append(ui_queue, Task("GetJobTypeInUI", Len(jobs) + 1, FALSE))
  /\ UNCHANGED <<registryVars, factoryVars, io_queue, cmdVars, applied, crashed>>

\* CustomProtocolHandler::MaybeCreateJob: the factory's custom handler for
\* the scheme creates the adapter job on the IO thread; the job borrows the
\* handler's wrapped prior handler and asks the UI thread for its type.
MaybeCreateJob(scheme) ==
  /\ ~crashed
  /\ Len(cmds) + Len(jobs) < MaxOps
  /\ IsCustom(factory[scheme])
  /\ jobs' = Append(jobs, [scheme |-> scheme,
                           creator |-> factory[scheme],
                           map_at_creation |-> HandlerAt(scheme),
                           default_protocol_handler |-> protocol_handler_[factory[scheme]],
                           alive |-> TRUE,
                           dangling |-> FALSE,
                           handler |-> NULL,
                           value |-> NoJob,
                           type |-> NoJob,
                           posted |-> 0,
                           real_job |-> NoJob])
  /\ ui_queue' = Append(ui_queue, Task("GetJobTypeInUI", Len(jobs) + 1, FALSE))
  /\ UNCHANGED <<registryVars, factoryVars, io_queue, cmdVars, applied, crashed>>

\* The request is canceled: the network stack destroys the adapter job and
\* its weak pointers become invalid.
Kill(j) ==
  /\ ~crashed
  /\ j \in 1..Len(jobs)
  /\ jobs[j].alive
  /\ jobs[j].real_job = NoJob
  /\ jobs' = [jobs EXCEPT ![j].alive = FALSE]
  /\ UNCHANGED <<registryVars, factoryVars, io_queue, ui_queue, cmdVars,
                 applied, crashed>>

\* Mutant: the tasks are bound to the raw job pointer and always run.
GetWeakPtr_Unretained(j) == TRUE

\* GetWeakPtr(): a task bound to the job's weak pointer runs only while the
\* job exists.
GetWeakPtr(j) == jobs[j].alive

\* Protocol::GetProtocolHandler: std::map::operator[] default-constructs
\* the entry of a scheme that has none.
GetProtocolHandler(scheme) ==
  IF ContainsKey(protocol_handlers_, scheme)
    THEN protocol_handlers_
    ELSE Store(protocol_handlers_, scheme, NULL)

\* Mutant: the job calls the handler of the command whose protocol handler
\* created it, not the one the map holds now.
GetJobTypeInUI_CreatorHandler(j) ==
  LET scheme == jobs[j].scheme
      map == GetProtocolHandler(scheme)
      callback == IF map[scheme] = NULL THEN NULL ELSE jobs[j].creator
  IN /\ protocol_handlers_' = map
     /\ IF callback = NULL
          THEN /\ crashed' = TRUE
               /\ UNCHANGED <<jobs, io_queue>>
          ELSE /\ crashed' = crashed
               /\ \E value \in DecisionValues :
                    LET type == JobType(value, jobs[j].default_protocol_handler)
                    IN /\ jobs' = [jobs EXCEPT ![j].handler = callback,
                                               ![j].value = value,
                                               ![j].type = type,
                                               ![j].posted = @ + 1]
                       /\ PostToIO(Task(type, j, FALSE))

GetJobTypeInUI(j) ==
  LET scheme == jobs[j].scheme
      map == GetProtocolHandler(scheme)
      callback == map[scheme]
  IN /\ protocol_handlers_' = map
     /\ IF callback = NULL
          \* Run() on an empty base::Callback
          THEN /\ crashed' = TRUE
               /\ UNCHANGED <<jobs, io_queue>>
          ELSE /\ crashed' = crashed
               /\ \E value \in DecisionValues :
                    LET type == JobType(value, jobs[j].default_protocol_handler)
                    IN /\ jobs' = [jobs EXCEPT ![j].handler = callback,
                                               ![j].value = value,
                                               ![j].type = type,
                                               ![j].posted = @ + 1]
                       /\ PostToIO(Task(type, j, FALSE))

\* The task is bound to the job's weak pointer: it is dropped when the job
\* is gone.
RunGetJobTypeInUI ==
  /\ UIHead("GetJobTypeInUI")
  /\ ui_queue' = Tail(ui_queue)
  /\ LET j == Head(ui_queue).id IN
       IF GetWeakPtr(j)
         THEN GetJobTypeInUI(j)
         ELSE UNCHANGED <<protocol_handlers_, jobs, io_queue, crashed>>
  /\ UNCHANGED <<factoryVars, cmdVars, applied>>

JobTasks == {"StringJob", "BufferJob", "FileJob", "HttpJob", "ErrorJob:error",
             "ErrorJob:ERR_NOT_IMPLEMENTED", "JobFromProtocolHandler"}

\* What a call through a pointer to a deleted handler can do: abort the
\* process, or run whatever is at that address and return as if it worked.
UseAfterFree == {"abort", "returns"}

\* AdapterRequestJob::CreateJobFromProtocolHandlerAndStart calls
\* default_protocol_handler_->MaybeCreateJob(): the pointer the job borrowed
\* when it was created.
CreateJobFromProtocolHandlerAndStart(j) ==
  \E outcome \in IF jobs[j].default_protocol_handler \in destroyed
                   THEN UseAfterFree ELSE {"returns"} :
    IF outcome = "abort"
      THEN crashed' = TRUE /\ jobs' = jobs
      ELSE /\ crashed' = crashed
           /\ jobs' = [jobs EXCEPT ![j].real_job = "JobFromProtocolHandler",
                                   ![j].dangling =
                                     jobs[j].default_protocol_handler \in destroyed]

\* AdapterRequestJob::Create...JobAndStart, bound to the job's weak pointer.
RunCreateJobAndStart ==
  /\ ~crashed
  /\ io_queue # << >>
  /\ Head(io_queue).type \in JobTasks
  /\ io_queue' = Tail(io_queue)
  /\ LET j == Head(io_queue).id
         type == Head(io_queue).type
     IN IF ~GetWeakPtr(j)
          THEN UNCHANGED <<jobs, crashed>>
          ELSE IF type = "JobFromProtocolHandler"
            THEN CreateJobFromProtocolHandlerAndStart(j)
            ELSE /\ jobs' = [jobs EXCEPT ![j].real_job = type]
                 /\ crashed' = crashed
  /\ UNCHANGED <<registryVars, factoryVars, ui_queue, cmdVars, applied>>

\* ------------------------------------------------------ specification
Next ==
  \/ \E scheme \in Schemes : RegisterProtocol(scheme)
  \/ \E scheme \in Schemes : UnregisterProtocol(scheme)
  \/ \E scheme \in Schemes : InterceptProtocol(scheme)
  \/ \E scheme \in Schemes : UninterceptProtocol(scheme)
  \/ RunOnRegisterProtocol
  \/ RunOnInterceptProtocol
  \/ RunReply
  \/ RunIsHandledProtocol
  \/ RunHasProtocolHandler
  \/ RunRegisterProtocolInIO
  \/ RunUnregisterProtocolInIO
  \/ RunInterceptProtocolInIO
  \/ RunUninterceptProtocolInIO
  \/ \E scheme \in Schemes : MaybeCreateJob(scheme)
  \/ \E j \in 1..Len(jobs) : Kill(j)
  \/ RunGetJobTypeInUI
  \/ RunCreateJobAndStart

Spec == Init /\ [][Next]_vars

\* Each thread's message loop keeps running the tasks posted to it.
IOStep ==
  \/ RunIsHandledProtocol
  \/ RunHasProtocolHandler
  \/ RunRegisterProtocolInIO
  \/ RunUnregisterProtocolInIO
  \/ RunInterceptProtocolInIO
  \/ RunUninterceptProtocolInIO
  \/ RunCreateJobAndStart

UIStep ==
  \/ RunOnRegisterProtocol
  \/ RunOnInterceptProtocol
  \/ RunReply
  \/ RunGetJobTypeInUI

LiveSpec == Spec /\ WF_vars(IOStep) /\ WF_vars(UIStep)


\* =====================================================================
\* Properties
\* =====================================================================
Ids == 1..Len(cmds)
Is(i, op) == cmds[i].op = op
SameScheme(i, j) == cmds[i].scheme = cmds[j].scheme

\* This step issues command op on scheme (it becomes the last of cmds').
Issues(op, scheme) ==
  /\ Len(cmds') = Len(cmds) + 1
  /\ cmds'[Len(cmds')] = NewCmd(op, scheme)

\* This step runs the callback of command i.
CallsBack(i) == calls'[i] = calls[i] + 1

\* Command i has put its handler into protocol_handlers_.
Stored(i) ==
  \/ \E k \in 1..Len(applied) : applied[k] = i
  \/ \E k \in 1..Len(io_queue) :
       /\ io_queue[k].id = i
       /\ io_queue[k].type \in {"RegisterProtocolInIO", "InterceptProtocolInIO"}

\* No command with an op of ops on i's scheme was issued after i, other
\* than j, among the first upto commands.
NoneIssued(ops, i, j, upto) ==
  \A k \in (i + 1)..upto :
    k # j => ~(SameScheme(i, k) /\ cmds[k].op \in ops)

\* What the callback of a rejected second Register leaves as it was.
SecondRegisterRejected(i, j) ==
  /\ result'[j] = AlreadyHandled
  /\ protocol_handlers_' = protocol_handlers_
  /\ factory' = factory
  /\ io_queue' = io_queue
  /\ Stored(i) =>
       /\ ContainsKey(protocol_handlers_', cmds[i].scheme)
       /\ protocol_handlers_'[cmds[i].scheme] = i

\* C1: of two Register calls i, j on one scheme with no Unregister issued
\* between the first call and the second call's callback, the second's
\* callback gets "The Scheme is already registered", and that callback's
\* step leaves the map (still holding the first call's handler, if it was
\* stored) and the factory alone.
C1_SecondRegisterAlreadyHandled ==
  [][\A i \in Ids : \A j \in Ids :
       ( /\ i < j
         /\ Is(i, "register") /\ Is(j, "register") /\ SameScheme(i, j)
         /\ CallsBack(j)
         /\ NoneIssued({"unregister"}, i, j, Len(cmds)) )
       => SecondRegisterRejected(i, j)]_vars

\* C2: Unregister on a scheme absent from protocol_handlers_ runs its
\* callback at once with "The Scheme has not been registered", leaves the
\* map and the factory unchanged and posts nothing to either thread.
C2_UnregisterAbsent ==
  [][\A scheme \in Schemes :
       (Issues("unregister", scheme) /\ ~ContainsKey(protocol_handlers_, scheme))
       => /\ result'[Len(cmds')] = NotRegistered
          /\ calls'[Len(cmds')] = 1
          /\ protocol_handlers_' = protocol_handlers_
          /\ factory' = factory
          /\ io_queue' = io_queue
          /\ ui_queue' = ui_queue]_vars

C2_Witness ==
  \E i \in Ids : Is(i, "unregister") /\ result[i] = NotRegistered /\ calls[i] = 1


Removals == {"unregister", "unintercept"}
Additions == {"register", "intercept"}

\* C3: commands on one scheme take effect in issue order. (a) A removal j
\* issued after an addition i that succeeds, with no other removal of the
\* scheme issued between them, finds i's entry in the map: it is not
\* rejected with "The Scheme has not been registered". (b) The factory
\* changes of two commands on one scheme run on the IO thread in the order
\* the commands were issued.
C3_IssueOrder ==
  /\ \A i \in Ids : \A j \in Ids :
       ( /\ i < j /\ SameScheme(i, j)
         /\ cmds[i].op \in Additions /\ result[i] = Success
         /\ cmds[j].op \in Removals
         /\ NoneIssued(Removals, i, j, j) )
       => result[j] # NotRegistered
  /\ \A k1 \in 1..Len(applied) : \A k2 \in 1..Len(applied) :
       (k1 < k2 /\ SameScheme(applied[k1], applied[k2]))
       => applied[k1] < applied[k2]

\* Handler h is installed in the factory, or owned by a handler that is.
Preserved(h) ==
  \E scheme \in Schemes :
    \/ factory[scheme] = h
    \/ IsCustom(factory[scheme]) /\ protocol_handler_[factory[scheme]] = h

\* C4: the handler an Intercept command wrapped is never lost: it is alive
\* and either owned by an installed wrapping handler or back in the factory.
C4_OriginalPreserved ==
  \A i \in Ids :
    (Is(i, "intercept") /\ original[i] # NULL)
    => Preserved(original[i]) /\ original[i] \notin destroyed

\* Commands i < j are consecutive commands on their scheme, and j is the
\* last command issued on it.
LastTwoOnScheme(i, j) ==
  /\ i < j /\ SameScheme(i, j)
  /\ \A k \in Ids : (k > i /\ k # j) => ~SameScheme(i, k)

\* Command i's callback had reported success before command j was issued.
SucceededBefore(i, j) ==
  result[i] = Success /\ doneAt[i] # 0 /\ doneAt[i] < j

\* C5: in a running process, once Intercept i has reported success and the
\* Unintercept j issued after that on the same scheme has reported success
\* too (no other command on the scheme since i), the factory holds the very
\* handler i found there, alive, the wrapping handler is deleted and the
\* map has no entry for the scheme.
C5_UninterceptRestores ==
  \A i \in Ids : \A j \in Ids :
    ( /\ ~crashed
      /\ LastTwoOnScheme(i, j)
      /\ Is(i, "intercept") /\ Is(j, "unintercept")
      /\ SucceededBefore(i, j) /\ result[j] = Success )
    => /\ original[i] # NULL
       /\ factory[cmds[i].scheme] = original[i]
       /\ original[i] \notin destroyed
       /\ i \in destroyed
       /\ ~ContainsKey(protocol_handlers_, cmds[i].scheme)

C5_Witness ==
  \E i \in Ids : \E j \in Ids :
    /\ ~crashed
    /\ LastTwoOnScheme(i, j)
    /\ Is(i, "intercept") /\ Is(j, "unintercept")
    /\ SucceededBefore(i, j) /\ result[j] = Success
    /\ factory[cmds[i].scheme] = BuiltinId


\* C6: under fair scheduling of both threads every command that is issued
\* has its callback run, and run exactly once: from some point on the
\* number of calls is 1 for good.
CalledOnce(i) == i <= Len(calls) /\ calls[i] = 1

C6_CallbackExactlyOnce ==
  \A i \in CmdIds : [](Len(cmds) >= i => <>[]CalledOnce(i))


\* Command i's ...InIO step has run.
Applied(i) == \E k \in 1..Len(applied) : applied[k] = i

\* C7 as stated: a success callback comes after the command's own factory
\* change, and when Register's success callback runs the factory holds a
\* custom handler for the scheme.
C7_SuccessMeansInstalled ==
  [][\A i \in Ids :
       (CallsBack(i) /\ result'[i] = Success)
       => /\ Applied(i)
          /\ Is(i, "register") => IsCustom(factory[cmds[i].scheme])]_vars

\* C7, amended: a success callback comes after the command's own factory
\* change; when Register's success callback runs and no Unregister or
\* Unintercept of the scheme was issued since that Register, the factory
\* holds the live custom handler that Register installed.
C7_SuccessAfterFactoryChange ==
  [][\A i \in Ids :
       (CallsBack(i) /\ result'[i] = Success)
       => /\ Applied(i)
          /\ (Is(i, "register") /\ NoneIssued(Removals, i, i, Len(cmds)))
             => /\ factory[cmds[i].scheme] = i
                /\ i \notin destroyed]_vars

C7_Witness ==
  \E i \in Ids :
    /\ Is(i, "register") /\ result[i] = Success /\ Applied(i)
    /\ factory[cmds[i].scheme] = i

\* C8: Intercept j on a scheme that an earlier Register or Intercept i has
\* put into the map (i reported success before j was issued, and no removal
\* of the scheme was issued up to j's callback) gets "Cannot intercept
\* custom protocols."; the callback's step leaves the map entry, i's
\* handler, and the factory alone and posts nothing to the IO thread.
C8_InterceptCustomRejected ==
  [][\A i \in Ids : \A j \in Ids :
       ( /\ i < j /\ SameScheme(i, j)
         /\ cmds[i].op \in Additions /\ Is(j, "intercept")
         /\ SucceededBefore(i, j)
         /\ CallsBack(j)
         /\ NoneIssued(Removals, i, j, Len(cmds)) )
       => /\ result'[j] = CannotInterceptCustom
          /\ calls'[j] = 1
          /\ protocol_handlers_' = protocol_handlers_
          /\ ContainsKey(protocol_handlers_, cmds[i].scheme)
          /\ protocol_handlers_[cmds[i].scheme] = i
          /\ factory' = factory
          /\ io_queue' = io_queue
          /\ ~Applied(j)]_vars

C8_Witness ==
  \E i \in Ids : \E j \in Ids :
    /\ i < j /\ SameScheme(i, j)
    /\ Is(i, "register") /\ Is(j, "intercept")
    /\ SucceededBefore(i, j)
    /\ result[j] = CannotInterceptCustom
    /\ protocol_handlers_[cmds[i].scheme] = i

\* This step runs the task type of command j, on the IO or the UI thread.
RunsIO(type, j) ==
  /\ IOHead(type) /\ Head(io_queue).id = j
  /\ io_queue' = Tail(io_queue)
RunsUI(type, j) ==
  /\ UIHead(type) /\ Head(ui_queue).id = j
  /\ ui_queue' = Tail(ui_queue)

\* C9: when the factory has no handler for the scheme at the time the query
\* of Intercept j runs on the IO thread, the answer posted is "not
\* handled", and on that answer the callback gets "Scheme does not exist."
\* with the map, the factory and the IO queue unchanged; a command so
\* rejected never has an entry in the map or a handler in the factory.
C9_InterceptUnhandledRejected ==
  [][\A j \in Ids :
       /\ (RunsIO("HasProtocolHandler", j) /\ factory[cmds[j].scheme] = NULL)
          => ui_queue' = Append(ui_queue, Task("OnInterceptProtocol", j, FALSE))
       /\ (RunsUI("OnInterceptProtocol", j) /\ ~Head(ui_queue).arg)
          => /\ result'[j] = NotHandled
             /\ calls'[j] = 1
             /\ protocol_handlers_' = protocol_handlers_
             /\ factory' = factory
             /\ io_queue' = io_queue
       /\ (j <= Len(result') /\ result'[j] = NotHandled)
          => /\ \A s \in DOMAIN protocol_handlers_' : protocol_handlers_'[s] # j
             /\ \A s \in Schemes : factory'[s] # j
             /\ \A k \in 1..Len(applied') : applied'[k] # j]_vars

C9_Witness ==
  \E j \in Ids :
    /\ Is(j, "intercept") /\ result[j] = NotHandled /\ calls[j] = 1
    /\ ~ContainsKey(protocol_handlers_, cmds[j].scheme)
    /\ factory[cmds[j].scheme] = NULL

JobIds == 1..Len(jobs)
NotImplementedJob == "ErrorJob:ERR_NOT_IMPLEMENTED"

\* C10 as stated: a handler result that is neither a string nor one of the
\* recognized objects always resolves to the not-implemented error job.
C10_UnrecognizedIsError ==
  \A j \in JobIds :
    (jobs[j].posted > 0 /\ Unrecognized(jobs[j].value))
    => /\ jobs[j].type = NotImplementedJob
       /\ jobs[j].real_job \in {NoJob, NotImplementedJob}

\* C10, amended: such a result resolves to the not-implemented error job
\* when the job has no default (wrapped prior) protocol handler, and to the
\* job of the default protocol handler when it has one.
C10_UnrecognizedIsErrorOrDefault ==
  \A j \in JobIds :
    (jobs[j].posted > 0 /\ Unrecognized(jobs[j].value))
    => /\ jobs[j].type = IF jobs[j].default_protocol_handler = NULL
                           THEN NotImplementedJob
                           ELSE "JobFromProtocolHandler"
       /\ jobs[j].real_job \in {NoJob, jobs[j].type}

C10_Witness ==
  \E j \in JobIds :
    /\ Unrecognized(jobs[j].value)
    /\ jobs[j].default_protocol_handler = NULL
    /\ jobs[j].real_job = NotImplementedJob

\* This step evaluates adapter job j on the UI thread.
Evaluates(j) == RunsUI("GetJobTypeInUI", j) /\ GetWeakPtr(j)

\* This step runs job j's creation task on the IO thread.
RunsCreate(j) ==
  /\ ~crashed /\ io_queue # << >>
  /\ Head(io_queue).type \in JobTasks /\ Head(io_queue).id = j
  /\ io_queue' = Tail(io_queue)

\* C11: a job's default protocol handler is the handler its creating
\* handler wraps (none for a registered scheme). When the handler's result
\* selects no job of its own, the evaluation posts the delegation to the
\* default protocol handler if the job has one and the not-implemented
\* error job if it has none, and that task, run for a job that still
\* exists, starts that very job.
C11_FallbackDelegatesOrError ==
  [][\A j \in 1..Len(jobs') :
       /\ j > Len(jobs)
          => /\ jobs'[j].default_protocol_handler = protocol_handler_[jobs'[j].creator]
             /\ cmds[jobs'[j].creator].op = "register"
                => jobs'[j].default_protocol_handler = NULL
       /\ (j <= Len(jobs) /\ Evaluates(j) /\ ~crashed'
           /\ Unrecognized(jobs'[j].value))
          => LET task == IF jobs[j].default_protocol_handler # NULL
                           THEN "JobFromProtocolHandler"
                           ELSE NotImplementedJob
             IN /\ io_queue' = Append(io_queue, Task(task, j, FALSE))
                /\ jobs'[j].posted = 1
       /\ (j <= Len(jobs) /\ RunsCreate(j) /\ GetWeakPtr(j) /\ ~crashed'
           /\ Unrecognized(jobs[j].value))
          => jobs'[j].real_job = IF jobs[j].default_protocol_handler # NULL
                                  THEN "JobFromProtocolHandler"
                                  ELSE NotImplementedJob]_vars

C11_Witness ==
  \E j \in JobIds :
    /\ Unrecognized(jobs[j].value)
    /\ jobs[j].default_protocol_handler = BuiltinId
    /\ cmds[jobs[j].creator].op = "intercept"
    /\ jobs[j].real_job = "JobFromProtocolHandler"
    /\ ~jobs[j].dangling

\* C12: when a job is evaluated and the handler map holds no handler for
\* its scheme, the evaluation does not crash and posts the not-implemented
\* error job: no empty handler is invoked.
C12_NoHandlerIsError ==
  [][\A j \in JobIds :
       (Evaluates(j) /\ HandlerAt(jobs[j].scheme) = NULL)
       => /\ ~crashed'
          /\ io_queue' = Append(io_queue, Task(NotImplementedJob, j, FALSE))]_vars

\* C13: once a job is canceled no concrete job is ever started for it: its
\* evaluation, if still pending, is dropped (nothing is posted, the handler
\* map, the factory and the job are as before, the process runs on), and
\* so is its creation task if the decision was already posted.
C13_CanceledJobDropped ==
  [][\A j \in JobIds :
       ~jobs[j].alive
       => /\ ~jobs'[j].alive
          /\ jobs'[j].real_job = NoJob
          /\ RunsUI("GetJobTypeInUI", j)
             => UNCHANGED <<protocol_handlers_, factoryVars, io_queue, jobs,
                            crashed, cmdVars>>
          /\ RunsCreate(j)
             => UNCHANGED <<protocol_handlers_, factoryVars, ui_queue, jobs,
                            crashed, cmdVars>>]_vars

\* Job j's creation task is waiting in the IO queue.
CreationPending(j) ==
  \E k \in 1..Len(io_queue) :
    io_queue[k].id = j /\ io_queue[k].type \in JobTasks

C13_Witness ==
  \E j \in JobIds :
    /\ ~jobs[j].alive /\ jobs[j].posted = 1
    /\ ~CreationPending(j)
    /\ jobs[j].real_job = NoJob
    /\ ~crashed

\* C15: every evaluation of a job that still exists posts exactly one
\* creation task for it to the IO thread, and it is the job's first.
C15_ExactlyOneCreationTask ==
  [][\A j \in JobIds :
       Evaluates(j)
       => /\ Len(io_queue') = Len(io_queue) + 1
          /\ io_queue'[Len(io_queue')].id = j
          /\ io_queue'[Len(io_queue')].type \in JobTasks
          /\ SubSeq(io_queue', 1, Len(io_queue)) = io_queue
          /\ jobs[j].posted = 0 /\ jobs'[j].posted = 1]_vars

\* ------------------------------------------------ one scheme on its own
\* What belongs to scheme: its map entry, its factory handler, the tasks of
\* its commands in either queue, in order, and its commands with what
\* their callbacks got.
OfScheme(scheme, queue) ==
  SelectSeq(queue, LAMBDA t : cmds[t.id].scheme = scheme)

Proj(scheme) ==
  [entry |-> HandlerAt(scheme),
   handler |-> factory[scheme],
   io |-> OfScheme(scheme, io_queue),
   ui |-> OfScheme(scheme, ui_queue),
   cmds |-> [i \in {k \in Ids : cmds[k].scheme = scheme} |->
               [op |-> cmds[i].op, result |-> result[i], calls |-> calls[i]]]]

\* p.cmds with command n added.
SoloIssue(p, n, op, value, called) ==
  [i \in DOMAIN p.cmds \cup {n} |->
     IF i = n THEN [op |-> op, result |-> value, calls |-> called]
     ELSE p.cmds[i]]

SoloCallback(p, id, value) ==
  [p.cmds EXCEPT ![id] = [op |-> @.op, result |-> value, calls |-> @.calls + 1]]

\* Register and Unregister as they act on one scheme with nothing else
\* going on: q is what one step makes of p.
SoloRegisterProtocol(p, q) ==
  \E n \in CmdIds \ DOMAIN p.cmds :
    q = [p EXCEPT !.cmds = SoloIssue(p, n, "register", Pending, 0),
                  !.io = Append(p.io, Task("IsHandledProtocol", n, FALSE))]

SoloUnregisterProtocol(p, q) ==
  \E n \in CmdIds \ DOMAIN p.cmds :
    IF p.entry = NULL
      THEN q = [p EXCEPT !.cmds = SoloIssue(p, n, "unregister", NotRegistered, 1)]
      ELSE q = [p EXCEPT !.cmds = SoloIssue(p, n, "unregister", Pending, 0),
                         !.entry = NULL,
                         !.io = Append(p.io, Task("UnregisterProtocolInIO", n, FALSE))]

SoloIO(p, q) ==
  /\ p.io # << >>
  /\ LET task == Head(p.io) IN
       \/ /\ task.type = "IsHandledProtocol"
          /\ q = [p EXCEPT !.io = Tail(p.io),
                           !.ui = Append(p.ui, Task("OnRegisterProtocol", task.id,
                                                    p.handler # NULL))]
       \/ /\ task.type = "RegisterProtocolInIO"
          /\ q = [p EXCEPT !.io = Tail(p.io),
                           !.handler = task.id,
                           !.ui = Append(p.ui, Task("Reply", task.id, FALSE))]
       \/ /\ task.type = "UnregisterProtocolInIO"
          /\ q = [p EXCEPT !.io = Tail(p.io),
                           !.handler = NULL,
                           !.ui = Append(p.ui, Task("Reply", task.id, FALSE))]

SoloUI(p, q) ==
  /\ p.ui # << >>
  /\ LET task == Head(p.ui) IN
       \/ /\ task.type = "OnRegisterProtocol"
          /\ IF task.arg \/ p.entry # NULL
               THEN q = [p EXCEPT !.ui = Tail(p.ui),
                                  !.cmds = SoloCallback(p, task.id, AlreadyHandled)]
               ELSE q = [p EXCEPT !.ui = Tail(p.ui),
                                  !.entry = task.id,
                                  !.io = Append(p.io, Task("RegisterProtocolInIO",
                                                           task.id, FALSE))]
       \/ /\ task.type = "Reply"
          /\ q = [p EXCEPT !.ui = Tail(p.ui),
                           !.cmds = SoloCallback(p, task.id, Success)]

SoloNext(p, q) ==
  \/ SoloRegisterProtocol(p, q)
  \/ SoloUnregisterProtocol(p, q)
  \/ SoloIO(p, q)
  \/ SoloUI(p, q)

\* Only Register and Unregister commands have been issued, and no request
\* has been made.
OnlyRegisterUnregister ==
  /\ \A i \in Ids : cmds[i].op \in {"register", "unregister"}
  /\ jobs = << >>

\* C14: while only Register and Unregister commands are issued, every step
\* changes what belongs to at most one scheme, and changes it the way a
\* step of that scheme's commands run alone does: seen from one scheme,
\* any interleaving with the commands of other schemes is a run of its own
\* commands alone, with the same callback results, map entry and factory
\* handler.
C14_SchemesIndependent ==
  [][OnlyRegisterUnregister'
     => /\ \A s \in Schemes :
             Proj(s)' = Proj(s) \/ SoloNext(Proj(s), Proj(s)')
        /\ \A s \in Schemes : \A t \in Schemes \ {s} :
             Proj(s)' = Proj(s) \/ Proj(t)' = Proj(t)]_vars

C14_Witness ==
  \E i \in Ids : \E j \in Ids : \E k \in Ids :
    /\ OnlyRegisterUnregister
    /\ i < j /\ j < k /\ ~SameScheme(i, j) /\ SameScheme(i, k)
    /\ Is(i, "register") /\ Is(j, "register") /\ Is(k, "unregister")
    /\ result[i] = Success /\ result[j] = Success /\ result[k] = Success
    /\ doneAt[i] >= j
    /\ factory[cmds[i].scheme] = NULL /\ factory[cmds[j].scheme] = j

\* C16: whenever the IO-thread step of an Unintercept runs, the factory's
\* handler for the scheme is a wrapping handler that holds a prior handler:
\* the NOTREACHED() of UninterceptProtocolInIO is not reached.
C16_UninterceptAssertNeverReached ==
  [][\A i \in Ids :
       RunsIO("UninterceptProtocolInIO", i)
       => /\ IsCustom(factory[cmds[i].scheme])
          /\ protocol_handler_[factory[cmds[i].scheme]] # NULL
          /\ i \notin asserted']_vars

\* C17: whenever the IO-thread step of an Intercept that passed validation
\* runs, the factory holds a handler for the scheme to wrap: the
\* NOTREACHED() of InterceptProtocolInIO is not reached.
C17_InterceptAssertNeverReached ==
  [][\A i \in Ids :
       RunsIO("InterceptProtocolInIO", i)
       => /\ factory[cmds[i].scheme] # NULL
          /\ i \notin asserted']_vars

\* C18: the handler a job's evaluation calls is the one the handler map
\* holds for the job's scheme when the evaluation runs, whichever handler
\* was there when the job was created.
C18_HandlerAtEvaluationTime ==
  [][\A j \in JobIds :
       (Evaluates(j) /\ HandlerAt(jobs[j].scheme) # NULL)
       => /\ jobs'[j].handler = protocol_handlers_[jobs[j].scheme]
          /\ jobs'[j].posted = 1]_vars

\* The map entry of a job's scheme was replaced between the job's creation
\* and its evaluation, and the job was answered by the new handler.
C18_Witness ==
  \E j \in JobIds :
    /\ jobs[j].posted = 1
    /\ jobs[j].map_at_creation = jobs[j].creator
    /\ jobs[j].handler # jobs[j].map_at_creation
    /\ Is(jobs[j].handler, "register")
    /\ cmds[jobs[j].handler].scheme = jobs[j].scheme
    /\ \E k \in Ids : Is(k, "unregister") /\ cmds[k].scheme = jobs[j].scheme

\* C19: evaluating a job leaves the set of schemes in the handler map as
\* it was.
C19_LookupIsPure ==
  [][\A j \in JobIds :
       Evaluates(j) => DOMAIN protocol_handlers_' = DOMAIN protocol_handlers_]_vars

\* C20: whenever the delegation to a job's default protocol handler runs
\* on the IO thread for a job that still exists, that handler has not been
\* deleted.
C20_DefaultHandlerAlive ==
  [][\A j \in JobIds :
       ( /\ RunsCreate(j) /\ GetWeakPtr(j)
         /\ Head(io_queue).type = "JobFromProtocolHandler" )
       => jobs[j].default_protocol_handler \notin destroyed]_vars

====
